---- MODULE Spec2Model ----
(***************************************************************************)
(* The Battleship game engine of src/main.rs: BattleshipGame (board,       *)
(* shots, ships, game_over, message, play_again, rows, cols, turns), its   *)
(* operations start_game (fleet placement by rejection sampling), shoot    *)
(* and game_stats.                                                         *)
(* Coordinates are 0-based as in the code; a grid is a function            *)
(* [0..rows-1 -> [0..cols-1 -> ...]].                                      *)
(***************************************************************************)
EXTENDS Integers, Sequences, FiniteSets, TLC

VARIABLES
    board,        \* BattleshipGame.board : Vec<Vec<Cell>>
    shots,        \* BattleshipGame.shots : Vec<Vec<Shot>>
    ships,        \* BattleshipGame.ships : Vec<Ship>
    game_over,    \* BattleshipGame.game_over
    message,      \* BattleshipGame.message
    play_again,   \* BattleshipGame.play_again
    rows,         \* BattleshipGame.rows
    cols,         \* BattleshipGame.cols
    turns,        \* BattleshipGame.turns
    pc,           \* "place": inside start_game's placement loop; "play": new() has returned
    ship_idx,     \* the placement loop's ship_idx (Len(SHIPS) once the loop is over)
    awaiting_new_game   \* BattleshipApp.awaiting_new_game

vars == <<board, shots, ships, game_over, message, play_again, rows, cols,
          turns, pc, ship_idx, awaiting_new_game>>

(***************************************************************************)
(* Bounds of the model.                                                    *)
(***************************************************************************)
\* shoot calls that take the early return, explored per game (the calls that
\* record a shot are bounded by the grid)
MaxIgnored == 1
\* largest grid side explored by the placement-only specification
MaxSide == 4

\* the grids a full game is played on: the smallest grids the fleet fits on
Dims == {<<2, 5>>, <<9, 1>>}
\* the grids the placement-only specification explores
PlaceDims == (1..MaxSide) \X (1..MaxSide)

(***************************************************************************)
(* Types and constants of the program.                                     *)
(***************************************************************************)
SHIPS == << [name |-> "Destroyer", length |-> 2],
            [name |-> "Cruiser", length |-> 3],
            [name |-> "Battleship", length |-> 4] >>

Empty == <<"Empty">>
ShipCell(idx) == <<"Ship", idx>>

Untargeted == "Untargeted"
Miss == "Miss"
Hit == "Hit"

\* vec![vec![v; c]; r]
Grid(r, c, v) == [i \in 0..(r - 1) |-> [j \in 0..(c - 1) |-> v]]

\* ShotMessage with the 0-based coordinates: format!("{} at ({}, {})!", what, row, col)
ShotMessageZeroBased(what, row, col) ==
    what \o " at (" \o ToString(row) \o ", " \o ToString(col) \o ")!"

\* format!("{} at ({}, {})!", what, row + 1, col + 1)
ShotMessage(what, row, col) ==
    what \o " at (" \o ToString(row + 1) \o ", " \o ToString(col + 1) \o ")!"

\* format!("You sunk the {}!", ship.name)
SunkMessage(name) == "You sunk the " \o name \o "!"

VictoryMessage == "Congratulations! You sunk all the ships!"

(***************************************************************************)
(* start_game: the reset, then one action per iteration of 'place.         *)
(***************************************************************************)
\* Candidate with the inclusive range 0..=length
CandidateInclusive(dir, row, col, length) ==
    [k \in 1..(length + 1) |-> IF dir THEN <<row, col + (k - 1)>>
                                      ELSE <<row + (k - 1), col>>]

\* the coordinates the inner loop computes for i in 0..length
Candidate(dir, row, col, length) ==
    [k \in 1..length |-> IF dir THEN <<row, col + (k - 1)>>
                                ELSE <<row + (k - 1), col>>]

\* Fits without the test of self.board[r][c] != Cell::Empty
FitsNoOverlap(positions) ==
    \A k \in 1..Len(positions) :
        ~(positions[k][1] >= rows \/ positions[k][2] >= cols)

\* no iteration of the inner loop takes a `continue 'place`
Fits(positions) ==
    \A k \in 1..Len(positions) :
        LET r == positions[k][1]
            c == positions[k][2]
        IN  /\ ~(r >= rows \/ c >= cols)
            /\ board[r][c] = Empty

\* the board after `for &(r, c) in &positions { self.board[r][c] = Cell::Ship(ship_idx) }`
Mark(b, positions, idx) ==
    [r \in DOMAIN b |-> [c \in DOMAIN b[r] |->
        IF \E k \in 1..Len(positions) : positions[k] = <<r, c>>
        THEN ShipCell(idx) ELSE b[r][c]]]

\* StartGame without `self.game_over = false`
StartGameKeepsGameOver(r, c) ==
    /\ turns' = 0
    /\ rows' = r
    /\ cols' = c
    /\ board' = Grid(r, c, Empty)
    /\ shots' = Grid(r, c, Untargeted)
    /\ ships' = << >>
    /\ message' = "Game started!"
    /\ play_again' = FALSE
    /\ ship_idx' = 0
    /\ pc' = "place"
    /\ UNCHANGED game_over

\* StartGame without `self.play_again = false`
StartGameKeepsPlayAgain(r, c) ==
    /\ turns' = 0
    /\ rows' = r
    /\ cols' = c
    /\ board' = Grid(r, c, Empty)
    /\ shots' = Grid(r, c, Untargeted)
    /\ ships' = << >>
    /\ game_over' = FALSE
    /\ message' = "Game started!"
    /\ ship_idx' = 0
    /\ pc' = "place"
    /\ UNCHANGED play_again

\* start_game up to the placement loop
StartGame(r, c) ==
    /\ turns' = 0
    /\ rows' = r
    /\ cols' = c
    /\ board' = Grid(r, c, Empty)
    /\ shots' = Grid(r, c, Untargeted)
    /\ ships' = << >>
    /\ game_over' = FALSE
    /\ message' = "Game started!"
    /\ play_again' = FALSE
    /\ ship_idx' = 0
    /\ pc' = "place"

\* BattleshipGame::new(r, c) on an existing application: the old game is replaced
NewGame(r, c) ==
    /\ pc = "play"
    /\ StartGame(r, c)

\* one iteration of 'place that reaches the `break`
PlaceAccept(dir, row, col) ==
    LET positions == Candidate(dir, row, col, SHIPS[ship_idx + 1].length)
    IN  /\ pc = "place"
        /\ Fits(positions)
        /\ board' = Mark(board, positions, ship_idx)
        /\ ships' = Append(ships, [name |-> SHIPS[ship_idx + 1].name,
                                   length |-> SHIPS[ship_idx + 1].length,
                                   positions |-> positions,
                                   sunk |-> FALSE])
        /\ ship_idx' = ship_idx + 1
        /\ pc' = IF ship_idx + 1 = Len(SHIPS) THEN "play" ELSE "place"
        /\ UNCHANGED <<shots, game_over, message, play_again, rows, cols, turns>>

\* PlaceReject with the board marked inside the inner loop, coordinate by
\* coordinate, before the `continue 'place` is taken
PlaceRejectMarksPrefix(dir, row, col) ==
    LET positions == Candidate(dir, row, col, SHIPS[ship_idx + 1].length)
        bad == {k \in 1..Len(positions) :
                   \/ positions[k][1] >= rows
                   \/ positions[k][2] >= cols
                   \/ board[positions[k][1]][positions[k][2]] # Empty}
        first == CHOOSE k \in bad : \A j \in bad : k <= j
    IN  /\ pc = "place"
        /\ ~Fits(positions)
        /\ board' = Mark(board, SubSeq(positions, 1, first - 1), ship_idx)
        /\ UNCHANGED <<shots, ships, game_over, message, play_again, rows, cols,
                       turns, pc, ship_idx>>

\* one iteration of 'place that takes a `continue 'place`
PlaceReject(dir, row, col) ==
    LET positions == Candidate(dir, row, col, SHIPS[ship_idx + 1].length)
    IN  /\ pc = "place"
        /\ ~Fits(positions)
        /\ UNCHANGED vars

(***************************************************************************)
(* shoot                                                                   *)
(***************************************************************************)
\* Ignored without the test of the shot already recorded at (row, col)
IgnoredOnlyGameOver(row, col) == game_over

\* the early return of shoot
Ignored(row, col) == game_over \/ shots[row][col] # Untargeted

\* AllHit with any() in place of all()
AllHitAny(positions, sh) ==
    \E k \in 1..Len(positions) : sh[positions[k][1]][positions[k][2]] = Hit

\* ship.positions.iter().all(|&(r, c)| self.shots[r][c] == Shot::Hit)
AllHit(positions, sh) ==
    \A k \in 1..Len(positions) : sh[positions[k][1]][positions[k][2]] = Hit

\* ShipsLeft with the filter not negated: filter(|s| s.sunk)
ShipsLeftCountsSunk(ss) == Cardinality({i \in 1..Len(ss) : ss[i].sunk})

\* self.ships.iter().filter(|s| !s.sunk).count()
ShipsLeft(ss) == Cardinality({i \in 1..Len(ss) : ~ss[i].sunk})

\* Outcome with the two arms of the match exchanged
OutcomeInverted(cell) == IF cell = Empty THEN Hit ELSE Miss

\* Outcome recording a Hit whatever the cell holds
OutcomeAlwaysHit(cell) == Hit

\* the shot recorded by the match on self.board[row][col]
Outcome(cell) == IF cell = Empty THEN Miss ELSE Hit

\* SinkCheck assigning every ship's flag from the test of the ship just hit
SinkCheckRebuild(ss, cell, sh) ==
    IF cell = Empty THEN ss
    ELSE [i \in 1..Len(ss) |->
            [ss[i] EXCEPT !.sunk = (i = cell[2] + 1 /\ AllHit(ss[i].positions, sh))]]

\* the ships after the match: the ship that owns the cell is sunk when all of it is hit
SinkCheck(ss, cell, sh) ==
    IF cell = Empty THEN ss
    ELSE [i \in 1..Len(ss) |->
            IF i = cell[2] + 1 /\ AllHit(ss[i].positions, sh)
            THEN [ss[i] EXCEPT !.sunk = TRUE] ELSE ss[i]]

\* MatchMessage with the "Hit at" message assigned after the sunk test
MatchMessageHitLast(ss, cell, sh, row, col) ==
    IF cell = Empty THEN ShotMessage("Miss", row, col)
    ELSE ShotMessage("Hit", row, col)

\* the message after the match
MatchMessage(ss, cell, sh, row, col) ==
    IF cell = Empty THEN ShotMessage("Miss", row, col)
    ELSE IF AllHit(ss[cell[2] + 1].positions, sh)
         THEN SunkMessage(ss[cell[2] + 1].name)
         ELSE ShotMessage("Hit", row, col)

\* AllSunk with the count off by one
AllSunkOffByOne(ss) == ShipsLeft(ss) <= 1

\* the condition of `if ships_left == 0`
AllSunk(ss) == ShipsLeft(ss) = 0

\* Record with a constant column index: self.shots[row][0] = v
RecordFirstCol(sh, row, col, v) == [sh EXCEPT ![row][0] = v]

\* self.shots[row][col] = v
Record(sh, row, col, v) == [sh EXCEPT ![row][col] = v]

\* Resolved without the victory message overwriting the message of the match
ResolvedKeepsMatchMessage(row, col) ==
    LET cell == board[row][col]
        sh == Record(shots, row, col, Outcome(cell))
        ss == SinkCheck(ships, cell, sh)
    IN  [turns |-> turns + 1, shots |-> sh, ships |-> ss,
         game_over |-> (game_over \/ AllSunk(ss)),
         message |-> MatchMessage(ss, cell, sh, row, col),
         play_again |-> (play_again \/ AllSunk(ss))]

\* the fields of the game when a shoot(row, col) that passes the early return ends
Resolved(row, col) ==
    LET cell == board[row][col]
        sh == Record(shots, row, col, Outcome(cell))
        ss == SinkCheck(ships, cell, sh)
    IN  IF AllSunk(ss)
        THEN [turns |-> turns + 1, shots |-> sh, ships |-> ss,
              game_over |-> TRUE, message |-> VictoryMessage,
              play_again |-> TRUE]
        ELSE [turns |-> turns + 1, shots |-> sh, ships |-> ss,
              game_over |-> game_over,
              message |-> MatchMessage(ss, cell, sh, row, col),
              play_again |-> play_again]

\* AfterShoot with `self.turns += 1` placed after the early return
AfterShootCountsLate(row, col) ==
    IF Ignored(row, col)
    THEN [turns |-> turns, shots |-> shots, ships |-> ships,
          game_over |-> game_over, message |-> message, play_again |-> play_again]
    ELSE Resolved(row, col)

\* the fields of the game when shoot(row, col) returns
AfterShoot(row, col) ==
    IF Ignored(row, col)
    THEN [turns |-> turns + 1, shots |-> shots, ships |-> ships,
          game_over |-> game_over, message |-> message, play_again |-> play_again]
    ELSE Resolved(row, col)

(***************************************************************************)
(* game_stats                                                              *)
(***************************************************************************)
Cells == (0..(rows - 1)) \X (0..(cols - 1))

CountShots(kind) == Cardinality({p \in Cells : shots[p[1]][p[2]] = kind})

game_stats ==
    [turns |-> turns,
     hits |-> CountShots(Hit),
     misses |-> CountShots(Miss),
     ships_left |-> ShipsLeft(ships),
     total_ships |-> Len(ships)]

(***************************************************************************)
(* shoot as an action                                                      *)
(***************************************************************************)
\* the shoot calls so far that recorded a shot
Targeted == Cardinality({p \in Cells : shots[p[1]][p[2]] # Untargeted})

\* Shoot clearing the Cell it targets: self.board[row][col] = Cell::Empty
ShootClearsCell(row, col) ==
    LET after == AfterShoot(row, col)
    IN  /\ pc = "play"
        /\ Ignored(row, col) => turns - Targeted < MaxIgnored
        /\ turns' = after.turns
        /\ shots' = after.shots
        /\ ships' = after.ships
        /\ game_over' = after.game_over
        /\ message' = after.message
        /\ play_again' = after.play_again
        /\ board' = [board EXCEPT ![row][col] = Empty]
        /\ UNCHANGED <<rows, cols, pc, ship_idx>>

\* shoot(row, col); calls that take the early return are explored MaxIgnored times
Shoot(row, col) ==
    LET after == AfterShoot(row, col)
    IN  /\ pc = "play"
        /\ Ignored(row, col) => turns - Targeted < MaxIgnored
        /\ turns' = after.turns
        /\ shots' = after.shots
        /\ ships' = after.ships
        /\ game_over' = after.game_over
        /\ message' = after.message
        /\ play_again' = after.play_again
        /\ UNCHANGED <<board, rows, cols, pc, ship_idx>>

(***************************************************************************)
(* Specifications                                                          *)
(***************************************************************************)
\* the state start_game has at the top of its placement loop, called by
\* new(r, c) from BattleshipApp::default
InitWith(dims) ==
    \E d \in dims :
        /\ turns = 0
        /\ rows = d[1]
        /\ cols = d[2]
        /\ board = Grid(d[1], d[2], Empty)
        /\ shots = Grid(d[1], d[2], Untargeted)
        /\ ships = << >>
        /\ game_over = FALSE
        /\ message = "Game started!"
        /\ play_again = FALSE
        /\ ship_idx = 0
        /\ pc = "place"
        /\ awaiting_new_game = FALSE

Init == InitWith(Dims)

Place ==
    \E dir \in BOOLEAN, row \in 0..(rows - 1), col \in 0..(cols - 1) :
        \/ PlaceAccept(dir, row, col)
        \/ PlaceReject(dir, row, col)

\* the engine called by any caller: the application's flag stays as it is
Next ==
    /\ \/ Place
       \/ \E row \in 0..(rows - 1), col \in 0..(cols - 1) : Shoot(row, col)
       \/ \E d \in Dims : NewGame(d[1], d[2])
    /\ UNCHANGED awaiting_new_game

Spec == Init /\ [][Next]_vars

\* placement alone, on every grid up to MaxSide x MaxSide
InitPlace == InitWith(PlaceDims)

PlaceNext == Place /\ UNCHANGED awaiting_new_game

SpecPlace == InitPlace /\ [][PlaceNext]_vars

\* placement alone, the random choices being fair: an iteration that reaches
\* the `break` is taken eventually when one exists
SpecPlaceFair ==
    /\ InitPlace
    /\ [][PlaceNext]_vars
    /\ WF_vars(\E dir \in BOOLEAN, row \in 0..(rows - 1), col \in 0..(cols - 1) :
                  PlaceAccept(dir, row, col) /\ UNCHANGED awaiting_new_game)

(***************************************************************************)
(* BattleshipApp::update: the three buttons that reach the game. The       *)
(* fields selected_row and selected_col, which update only writes, are     *)
(* left out.                                                               *)
(***************************************************************************)
\* the fields of BattleshipGame
game == <<board, shots, ships, game_over, message, play_again, rows, cols, turns>>

\* ClickCell without the test of !self.game.game_over
ClickCellUngated(row, col) ==
    /\ Shoot(row, col)
    /\ UNCHANGED awaiting_new_game

\* a click on the board button (row, col)
ClickCell(row, col) ==
    /\ ~game_over
    /\ Shoot(row, col)
    /\ UNCHANGED awaiting_new_game

\* a click on "Start New Game" with the dimensions (r, c) in the controls
ClickStartNewGame(r, c) ==
    /\ NewGame(r, c)
    /\ awaiting_new_game' = FALSE

\* a click on "Play Again", offered when the game is over
ClickPlayAgain ==
    /\ pc = "play"
    /\ game_over
    /\ awaiting_new_game' = TRUE
    /\ UNCHANGED <<game, pc, ship_idx>>

AppNext ==
    \/ PlaceNext
    \/ \E row \in 0..(rows - 1), col \in 0..(cols - 1) : ClickCell(row, col)
    \/ \E d \in Dims : ClickStartNewGame(d[1], d[2])
    \/ ClickPlayAgain

\* the application: the game is reached through the buttons only
SpecApp == Init /\ [][AppNext]_vars

(***************************************************************************)
(* Properties                                                              *)
(***************************************************************************)
\* the set of coordinates of ship i (1-based index into ships)
Coords(i) == {ships[i].positions[k] : k \in 1..Len(ships[i].positions)}

\* the coordinates of the grid that hold a ship
Occupied == UNION {Coords(i) : i \in 1..Len(ships)}

\* the sum of the lengths of the fleet manifest
FleetCells == SHIPS[1].length + SHIPS[2].length + SHIPS[3].length

\* C1: every ship placed lies inside the grid, no coordinate belongs to two
\* ships (or twice to one), and a completed placement occupies exactly
\* 2 + 3 + 4 = 9 coordinates.
PlacementSound ==
    /\ \A i \in 1..Len(ships) :
          /\ Coords(i) \subseteq (0..(rows - 1)) \X (0..(cols - 1))
          /\ Cardinality(Coords(i)) = Len(ships[i].positions)
          /\ \A j \in 1..Len(ships) : i # j => Coords(i) \cap Coords(j) = {}
    /\ pc = "play" =>
          /\ Len(ships) = Len(SHIPS)
          /\ Cardinality(Occupied) = FleetCells
          /\ FleetCells = 9

\* a completed placement on the 4 x 4 grid with a horizontal and a vertical ship
PlacementSoundWitness ==
    /\ pc = "play"
    /\ rows = 4 /\ cols = 4
    /\ \E i, j \in 1..Len(ships) :
          /\ ships[i].positions[1][1] = ships[i].positions[2][1]
          /\ ships[j].positions[1][2] = ships[j].positions[2][2]

\* C2: once new() has returned, game_over holds exactly when ships_left is 0.
GameOverIffNoShipsLeft ==
    pc = "play" => (game_over <=> game_stats.ships_left = 0)

\* a finished game: the last ship has been sunk by a shoot call
GameOverWitness ==
    /\ pc = "play"
    /\ game_over
    /\ game_stats.ships_left = 0
    /\ turns > 0

\* the number of coordinates of ship i whose shot is Hit
HitsOn(i) == Cardinality({p \in Coords(i) : shots[p[1]][p[2]] = Hit})

\* C3: a ship is sunk exactly when every one of its coordinates is Hit, that
\* is when the Hit shots on its coordinates number its length.
SunkIffAllHit ==
    \A i \in 1..Len(ships) :
        /\ ships[i].sunk <=> (\A p \in Coords(i) : shots[p[1]][p[2]] = Hit)
        /\ ships[i].sunk <=> (HitsOn(i) = ships[i].length)

\* one ship sunk, another hit but not sunk
SunkWitness ==
    /\ pc = "play"
    /\ \E i, j \in 1..Len(ships) :
          /\ ships[i].sunk
          /\ ~ships[j].sunk
          /\ HitsOn(j) > 0

\* a step of the game that is a shoot call
ShootStep == pc = "play" /\ pc' = "play"

\* C4: a shoot call never changes a shot already recorded, and a shoot call at a
\* coordinate already targeted leaves the whole shot grid as it is while the
\* turn counter goes up by one.
ShotsWriteOnce ==
    /\ [](pc = "play" =>
            \A p \in Cells :
                shots[p[1]][p[2]] # Untargeted =>
                    /\ AfterShoot(p[1], p[2]).shots = shots
                    /\ AfterShoot(p[1], p[2]).turns = turns + 1)
    /\ [][ShootStep =>
            \A p \in Cells :
                shots[p[1]][p[2]] # Untargeted =>
                    shots'[p[1]][p[2]] = shots[p[1]][p[2]]]_vars

\* a coordinate was shot twice in a game still running, with a Miss and a Hit
\* on the grid
ShotTwiceWitness ==
    /\ pc = "play"
    /\ ~game_over
    /\ turns = Targeted + 1
    /\ game_stats.misses = 1
    /\ game_stats.hits >= 1

\* C5: every shoot call with coordinates inside the grid adds exactly one to
\* the turn counter, whatever the state (cell already targeted, game over);
\* the placement leaves the counter at 0, so the counter is the number of
\* shoot calls on the game and never goes down.
TurnsCountCalls ==
    /\ [](pc = "play" =>
            \A p \in Cells : AfterShoot(p[1], p[2]).turns = turns + 1)
    /\ [][/\ ShootStep => turns' = turns + 1
          /\ pc = "place" => (turns = 0 /\ turns' = 0)]_vars

\* a finished game whose counter is past the shots recorded
TurnsPastShotsWitness ==
    /\ pc = "play"
    /\ game_over
    /\ turns = game_stats.hits + game_stats.misses + 1

\* C6: a shoot call made when the game is over, or at a coordinate whose shot
\* is not Untargeted, changes nothing but the turn counter.
NoOpWhenIgnored ==
    pc = "play" =>
        \A p \in Cells :
            (game_over \/ shots[p[1]][p[2]] # Untargeted) =>
                LET after == AfterShoot(p[1], p[2])
                IN  /\ after.shots = shots
                    /\ after.ships = ships
                    /\ after.game_over = game_over
                    /\ after.play_again = play_again
                    /\ after.message = message

\* a call was ignored and the message of an earlier sinking is still shown
IgnoredCallWitness ==
    /\ pc = "play"
    /\ turns > Targeted
    /\ ~game_over
    /\ message = SunkMessage("Cruiser")

\* C7: no shoot call clears a ship's sunk flag or the game_over flag.
SunkAndGameOverMonotone ==
    [][ShootStep =>
        /\ game_over => game_over'
        /\ \A i \in 1..Len(ships) : ships[i].sunk => ships'[i].sunk]_vars

\* a ship was sunk and a later shot missed
SunkThenMissWitness ==
    /\ pc = "play"
    /\ \E i \in 1..Len(ships) : ships[i].sunk
    /\ \E p \in Cells : message = ShotMessage("Miss", p[1], p[2])

\* the Hit shots on the coordinates of ships 1..n, summed ship by ship
RECURSIVE HitsOnShips(_)
HitsOnShips(n) == IF n = 0 THEN 0 ELSE HitsOn(n) + HitsOnShips(n - 1)

\* C8: hits + misses never exceeds rows * cols, and hits is the sum over the
\* ships of their coordinates whose shot is Hit: no Hit lies on an Empty cell
\* and no Miss on a ship's cell.
StatsConsistent ==
    /\ game_stats.hits + game_stats.misses <= rows * cols
    /\ game_stats.hits = HitsOnShips(Len(ships))
    /\ \A p \in Cells :
          /\ shots[p[1]][p[2]] = Hit => board[p[1]][p[2]] # Empty
          /\ shots[p[1]][p[2]] = Miss => board[p[1]][p[2]] = Empty

\* every cell of a grid with an Empty cell has been shot
FullGridWitness ==
    /\ pc = "play"
    /\ game_stats.misses >= 1
    /\ game_stats.hits >= 1
    /\ game_stats.hits + game_stats.misses = rows * cols

\* the state new(rows, cols) returns
FreshGame ==
    /\ turns = 0
    /\ ~game_over
    /\ ~play_again
    /\ message = "Game started!"
    /\ DOMAIN shots = 0..(rows - 1)
    /\ \A r \in DOMAIN shots : DOMAIN shots[r] = 0..(cols - 1)
    /\ \A p \in Cells : shots[p[1]][p[2]] = Untargeted
    /\ Len(ships) = 3
    /\ \A i \in 1..Len(ships) : ~ships[i].sunk
    /\ DOMAIN board = 0..(rows - 1)
    /\ \A r \in DOMAIN board : DOMAIN board[r] = 0..(cols - 1)
    /\ {p \in Cells : board[p[1]][p[2]] # Empty} = Occupied
    /\ Cardinality(Occupied) = 9
    /\ game_stats = [turns |-> 0, hits |-> 0, misses |-> 0,
                     ships_left |-> 3, total_ships |-> 3]

\* C9: a new game started from any state of an earlier game (running or
\* finished) is fresh when new() returns: turns 0, every shot Untargeted,
\* game_over and play_again false, 3 unsunk ships on exactly 9 occupied cells,
\* and the stats of a game not yet played; the reset itself leaves no shot, ship
\* or occupied cell of the earlier game.
NewGameIsFresh ==
    [][/\ (pc = "place" /\ pc' = "play") => FreshGame'
       /\ (pc = "play" /\ pc' = "place") =>
             /\ turns' = 0 /\ ~game_over' /\ ~play_again'
             /\ ships' = << >>
             /\ board' = Grid(rows', cols', Empty)
             /\ shots' = Grid(rows', cols', Untargeted)]_vars

\* new() has returned and no shoot call was made yet
FreshGameWitness ==
    /\ pc = "play"
    /\ FreshGame

\* every coordinate of every ship has been shot
FleetTargeted == \A p \in Occupied : shots[p[1]][p[2]] # Untargeted

\* every coordinate of every ship is Hit
FleetHit == \A p \in Occupied : shots[p[1]][p[2]] = Hit

\* C10: once every coordinate of the three ships has been targeted, in any
\* order and with any misses and repeated shots in between, the game is over
\* with the victory message, ships_left = 0 and hits = 9; and game_over is set
\* by exactly the shoot call that hits the last coordinate not yet hit.
VictoryWhenFleetTargeted ==
    /\ []((pc = "play" /\ FleetTargeted) =>
            /\ game_over
            /\ message = VictoryMessage
            /\ game_stats.ships_left = 0
            /\ game_stats.hits = 9)
    /\ [][ShootStep => ((~game_over /\ game_over') <=> (~FleetHit /\ FleetHit'))]_vars

\* a game won on the 2 x 5 grid after a miss
VictoryAfterMissWitness ==
    /\ pc = "play"
    /\ rows = 2
    /\ FleetTargeted
    /\ game_stats.misses = 1
    /\ message = VictoryMessage

\* the coordinates of ship i are all Hit on the shot grid sh
ShipHitOn(sh, i) == \A p \in Coords(i) : sh[p[1]][p[2]] = Hit

\* the number of ships not sunk among ss
Unsunk(ss) == Cardinality({i \in 1..Len(ss) : ~ss[i].sunk})

\* C11: a shoot call that hits the last coordinate not yet hit of a ship,
\* while another ship stays unsunk, sets that ship's sunk flag and no other,
\* takes ships_left down by exactly 1 and leaves the message
\* "You sunk the {name}!" with the name of the ship that owns the cell; so two
\* calls on a fresh game that hit the two Destroyer cells leave the Destroyer
\* sunk, that message, hits = 2 and ships_left = 2.
SinkingOneShip ==
    /\ pc = "play" =>
          \A p \in Cells, i \in 1..Len(ships) :
              LET after == AfterShoot(p[1], p[2])
              IN  (/\ ~game_over
                   /\ shots[p[1]][p[2]] = Untargeted
                   /\ p \in Coords(i)
                   /\ \A q \in Coords(i) \ {p} : shots[q[1]][q[2]] = Hit
                   /\ \E j \in 1..Len(ships) : j # i /\ ~ships[j].sunk) =>
                      /\ ~ships[i].sunk
                      /\ after.ships[i].sunk
                      /\ \A j \in 1..Len(ships) :
                            j # i => after.ships[j].sunk = ships[j].sunk
                      /\ Unsunk(after.ships) = Unsunk(ships) - 1
                      /\ after.message = "You sunk the " \o SHIPS[i].name \o "!"
                      /\ ~after.game_over
    /\ (pc = "play" /\ turns = 2 /\ HitsOn(1) = 2) =>
          /\ ships[1].sunk
          /\ message = "You sunk the Destroyer!"
          /\ game_stats.hits = 2
          /\ game_stats.ships_left = 2

\* the two Destroyer cells were shot on a fresh game, and nothing else
DestroyerSunkWitness ==
    /\ pc = "play"
    /\ turns = 2
    /\ HitsOn(1) = 2
    /\ message = "You sunk the Destroyer!"
    /\ game_stats.ships_left = 2

\* the number of entries of the shot grid sh that are kind
CountIn(sh, kind) == Cardinality({p \in Cells : sh[p[1]][p[2]] = kind})

\* C12: a shoot call at an Untargeted coordinate whose Cell is Empty, in a game
\* not over, records Miss there and changes no other shot: misses goes up by
\* exactly 1, hits stays, no sunk flag changes and game_over stays false.
MissFrame ==
    pc = "play" =>
        \A p \in Cells :
            LET after == AfterShoot(p[1], p[2])
            IN  (/\ ~game_over
                 /\ shots[p[1]][p[2]] = Untargeted
                 /\ board[p[1]][p[2]] = Empty) =>
                    /\ after.shots[p[1]][p[2]] = Miss
                    /\ \A q \in Cells \ {p} :
                          after.shots[q[1]][q[2]] = shots[q[1]][q[2]]
                    /\ CountIn(after.shots, Miss) = CountIn(shots, Miss) + 1
                    /\ CountIn(after.shots, Hit) = CountIn(shots, Hit)
                    /\ \A i \in 1..Len(ships) : after.ships[i].sunk = ships[i].sunk
                    /\ ~after.game_over

\* the latest shot recorded is a Miss, with hits on the grid and no ship sunk
MissRecordedWitness ==
    /\ pc = "play"
    /\ game_stats.misses = 1
    /\ game_stats.hits >= 2
    /\ game_stats.ships_left = 3
    /\ \E p \in Cells :
          /\ shots[p[1]][p[2]] = Miss
          /\ message = ShotMessage("Miss", p[1], p[2])

\* the anchors and orientations at which the next ship of the loop fits
FittingCandidates ==
    {c \in BOOLEAN \X (0..(rows - 1)) \X (0..(cols - 1)) :
        Fits(Candidate(c[1], c[2], c[3], SHIPS[ship_idx + 1].length))}

\* the straight runs of n cells inside an r x c grid, as sets of coordinates
Runs(r, c, n) ==
    {{<<p[1], p[2] + k>> : k \in 0..(n - 1)} :
        p \in {q \in (0..(r - 1)) \X (0..(c - 1)) : q[2] + n <= c}}
    \cup
    {{<<p[1] + k, p[2]>> : k \in 0..(n - 1)} :
        p \in {q \in (0..(r - 1)) \X (0..(c - 1)) : q[1] + n <= r}}

\* some placement of the three ships, in bounds and without overlap, exists
GridFitsFleet(r, c) ==
    \E b \in Runs(r, c, SHIPS[3].length) :
        \E m \in Runs(r, c, SHIPS[2].length) :
            /\ m \cap b = {}
            /\ \E d \in Runs(r, c, SHIPS[1].length) : d \cap (m \cup b) = {}

\* C13: on every grid on which some placement of the fleet exists, every
\* state of the placement loop leaves a candidate at which the next ship fits.
PlacementNeverStuck ==
    (pc = "place" /\ GridFitsFleet(rows, cols)) => FittingCandidates # {}

\* C14: on a grid with rows >= 4 and cols >= 4 the placement loop never
\* reaches a dead end (after any accepted Destroyer and Cruiser some
\* orientation and anchor still fits the next ship), and with fair random
\* choices the placement of the three ships ends.
PlacementCompletesFrom4x4 ==
    /\ []((pc = "place" /\ rows >= 4 /\ cols >= 4) => FittingCandidates # {})
    /\ ((rows >= 4 /\ cols >= 4) ~> pc = "play")

\* Destroyer and Cruiser placed on the 4 x 4 grid so that a single candidate
\* is left for the Battleship
OneCandidateLeftWitness ==
    /\ pc = "place"
    /\ rows = 4 /\ cols = 4
    /\ ship_idx = 2
    /\ Cardinality(FittingCandidates) = 1

\* the coordinates of ship i form one run of consecutive cells in one row or
\* in one column
StraightRun(i) ==
    LET pos == ships[i].positions
    IN  \/ \A k \in 1..Len(pos) : pos[k] = <<pos[1][1], pos[1][2] + (k - 1)>>
        \/ \A k \in 1..Len(pos) : pos[k] = <<pos[1][1] + (k - 1), pos[1][2]>>

\* the ships placed and the Cell grid agree and follow the manifest
FleetAgrees ==
    /\ Len(ships) = ship_idx
    /\ pc = "play" => Len(ships) = 3
    /\ \A i \in 1..Len(ships) :
          /\ ships[i].name = SHIPS[i].name
          /\ ships[i].length = SHIPS[i].length
          /\ Len(ships[i].positions) = ships[i].length
          /\ StraightRun(i)
    /\ \A p \in Cells :
          /\ board[p[1]][p[2]] = Empty <=> p \notin Occupied
          /\ \A i \in 1..Len(ships) :
                board[p[1]][p[2]] = <<"Ship", i - 1>> <=> p \in Coords(i)

\* C15: the ships placed follow the manifest in order (name, length), each
\* with length coordinates in one straight run and sunk = false when placed;
\* the Cell grid holds Ship(i) exactly at the coordinates of ships[i] and Empty
\* elsewhere; a completed placement has the three ships; and an iteration that
\* places no ship leaves the Cell grid as it was.
FleetMatchesBoard ==
    /\ []FleetAgrees
    /\ [][/\ ships' = ships => board' = board
          /\ ships' # ships =>
                /\ Len(ships') = Len(ships) + 1
                /\ ~ships'[Len(ships')].sunk]_vars

\* a completed placement with a vertical Battleship and a horizontal Destroyer
VerticalBattleshipWitness ==
    /\ pc = "play"
    /\ Len(ships) = 3
    /\ ships[3].positions[1][2] = ships[3].positions[4][2]
    /\ ships[1].positions[1][1] = ships[1].positions[2][1]
    /\ board[ships[3].positions[4][1]][ships[3].positions[4][2]] = <<"Ship", 2>>

\* ships a and b have the same names, lengths and coordinates, ship by ship
SamePlacement(a, b) ==
    /\ Len(a) = Len(b)
    /\ \A i \in 1..Len(a) :
          /\ a[i].name = b[i].name
          /\ a[i].length = b[i].length
          /\ a[i].positions = b[i].positions

\* C16: no shoot call changes the Cell grid, the dimensions of the grid, or
\* the name, length or coordinates of any ship: what a shoot call changes is
\* among the shot grid, the sunk flags, turns, game_over, play_again and the
\* message.
ShootKeepsPlacement ==
    /\ [](pc = "play" =>
            \A p \in Cells : SamePlacement(AfterShoot(p[1], p[2]).ships, ships))
    /\ [][ShootStep =>
            /\ board' = board
            /\ rows' = rows
            /\ cols' = cols
            /\ SamePlacement(ships', ships)]_vars

\* a game won on the 9 x 1 grid, the fleet still where it was placed
PlacementKeptWitness ==
    /\ pc = "play"
    /\ game_over
    /\ rows = 9
    /\ FleetAgrees
    /\ Cardinality({p \in Cells : board[p[1]][p[2]] # Empty}) = 9

\* the shot grid once (row, col) of p, Untargeted so far, is shot
ShotAt(p) ==
    [shots EXCEPT ![p[1]][p[2]] = IF p \in Occupied THEN Hit ELSE Miss]

\* C17: after a shoot call that passes the early return the message is, in
\* this order of precedence: the victory message when the call sank the last
\* unsunk ship; "You sunk the {name}!" when it completed a ship; "Hit at
\* (row+1, col+1)!" on a ship's cell; "Miss at (row+1, col+1)!" on an Empty
\* cell. The call that sinks the last ship never leaves "You sunk the ...".
MessagePrecedence ==
    pc = "play" =>
        \A p \in Cells :
            (~game_over /\ shots[p[1]][p[2]] = Untargeted) =>
                LET msg == AfterShoot(p[1], p[2]).message
                    at == "(" \o ToString(p[1] + 1) \o ", " \o ToString(p[2] + 1) \o ")!"
                IN  IF \A i \in 1..Len(ships) : ShipHitOn(ShotAt(p), i)
                    THEN msg = "Congratulations! You sunk all the ships!"
                    ELSE IF \E i \in 1..Len(ships) :
                                p \in Coords(i) /\ ShipHitOn(ShotAt(p), i)
                    THEN \E i \in 1..Len(ships) :
                            /\ p \in Coords(i)
                            /\ msg = "You sunk the " \o SHIPS[i].name \o "!"
                    ELSE IF p \in Occupied
                    THEN msg = "Hit at " \o at
                    ELSE msg = "Miss at " \o at

\* the latest shot hit, without sinking, the ship's cell in row 2, column 3
\* (1-based) after another ship was sunk
HitMessageWitness ==
    /\ pc = "play"
    /\ message = "Hit at (2, 3)!"
    /\ shots[1][2] = Hit
    /\ \E i \in 1..Len(ships) : ships[i].sunk

\* C19: play_again equals game_over in every state: both are false from the
\* start of a game, play_again becomes true in the very shoot call that sets
\* game_over, and no shoot call clears it.
PlayAgainIsGameOver ==
    /\ [](play_again = game_over)
    /\ [][/\ ShootStep => (play_again => play_again')
          /\ (~play_again /\ play_again') => (ShootStep /\ ~game_over /\ game_over')]_vars

\* a game won on the 2 x 5 grid without a miss, one call having been ignored
PlayAgainWitness ==
    /\ pc = "play"
    /\ rows = 2
    /\ play_again
    /\ game_over
    /\ game_stats.misses = 0
    /\ turns = 10

\* C20: game_over holds exactly when hits = 9, so never with turns < 9; the
\* game only becomes over in a shoot call that records a Hit; and turns is
\* never below hits + misses.
GameOverIffNineHits ==
    /\ [](game_over <=> game_stats.hits = 9)
    /\ [](game_over => turns >= 9)
    /\ [](turns >= game_stats.hits + game_stats.misses)
    /\ [][(~game_over /\ game_over') =>
            /\ ShootStep
            /\ CountIn(shots', Hit) = CountIn(shots, Hit) + 1]_vars

\* the shortest game: nine calls, nine hits
NineTurnsWitness ==
    /\ pc = "play"
    /\ game_over
    /\ turns = 9
    /\ game_stats.hits = 9

\* C18: through the application no shoot call reaches a game that is over:
\* from a state with game_over every step either leaves all of the game as it
\* is (turns included) or is Start New Game replacing it; and the step that
\* sets awaiting_new_game, the click on Play Again, leaves the game as it is.
ClicksGatedByGameOver ==
    [][/\ game_over => (game' = game \/ (pc = "play" /\ pc' = "place"))
       /\ (~awaiting_new_game /\ awaiting_new_game') =>
             (game_over /\ game' = game /\ pc' = pc)]_vars

\* Play Again was clicked on a game that is over
PlayAgainClickedWitness ==
    /\ pc = "play"
    /\ game_over
    /\ awaiting_new_game

====
